---- MODULE Spec2Model ----
(***************************************************************************)
(* Model of ai_assistant/tools.py: the four reservation tools              *)
(* (reserve_flight, reserve_hotel, reserve_bus, reserve_restaurant), which *)
(* build a record with a random cost and hand it to save_reservation, and  *)
(* generate_trip_report, which reads the JSON trip log back and renders a  *)
(* text report.                                                            *)
(*                                                                         *)
(* Text is modelled by TLA+ strings, except the date/time arguments of the *)
(* tools, which are sequences of one-character strings so that the ISO     *)
(* parser is computed character by character.  JSON values are tagged      *)
(* records.                                                                *)
(***************************************************************************)
EXTENDS Integers, Sequences, FiniteSets, TLC

VARIABLES
    file,       \* the trip log file (SETTINGS.log_file)
    op,         \* name of the last tool called ("none" before any call)
    args,       \* arguments of the last tool call
    exc,        \* exception class the last call raised to its caller, "" if none
    result,     \* text returned by the last generate_trip_report call
    report,     \* generate_trip_report's local list `report` when it ended
    returned,   \* records returned by the successful reservation calls, in order
    pc,         \* overlapping calls: position of each caller
    rec,        \* overlapping calls: the record each caller built
    snap        \* overlapping calls: the log each caller's save read

vars == <<file, op, args, exc, result, report, returned, pc, rec, snap>>

---------------------------------------------------------------------------
(* Bounds of the model *)

\* most successful reservation calls in a sequential run
MaxCalls == 2

\* most elements of a JSON array in a log file handed to generate_trip_report
MaxEntries == 3

---------------------------------------------------------------------------
(* JSON values, as json.load returns them *)

JStr(s) == [t |-> "str", s |-> s]
JInt(i) == [t |-> "int", i |-> i]
JNull == [t |-> "null"]
JObj(o) == [t |-> "obj", o |-> o]
JArr(a) == [t |-> "arr", a |-> a]

\* dict.get(key, default)
Get(d, key, default) == IF key \in DOMAIN d THEN d[key] ELSE default

\* str(v) as an f-string renders it
Str(v) ==
    CASE v.t = "str" -> v.s
      [] v.t = "int" -> ToString(v.i)
      [] v.t = "null" -> "None"

---------------------------------------------------------------------------
(* The log file *)

NoFile == [st |-> "absent"]
RawFile(raw) == [st |-> "text", json |-> FALSE, raw |-> raw]
JsonFile(v) == [st |-> "text", json |-> TRUE, v |-> v]
EmptyLog == JsonFile(JArr(<<>>))

---------------------------------------------------------------------------
(* ISO dates: date.fromisoformat, datetime.fromisoformat, isoformat *)

DigitVal ==
    [c \in {"0", "1", "2", "3", "4", "5", "6", "7", "8", "9"} |->
        CASE c = "0" -> 0 [] c = "1" -> 1 [] c = "2" -> 2 [] c = "3" -> 3
          [] c = "4" -> 4 [] c = "5" -> 5 [] c = "6" -> 6 [] c = "7" -> 7
          [] c = "8" -> 8 [] c = "9" -> 9]

IsDigits(s, from, to) == \A i \in from..to : s[i] \in DOMAIN DigitVal

RECURSIVE ToInt(_, _, _)
ToInt(s, from, to) ==
    IF to < from THEN 0 ELSE 10 * ToInt(s, from, to - 1) + DigitVal[s[to]]

IsLeap(y) == y % 4 = 0 /\ (y % 100 # 0 \/ y % 400 = 0)

DaysInMonth(y, m) ==
    CASE m \in {1, 3, 5, 7, 8, 10, 12} -> 31
      [] m \in {4, 6, 9, 11} -> 30
      [] m = 2 -> IF IsLeap(y) THEN 29 ELSE 28

ParseFail == [ok |-> FALSE]

\* a parser that checks the shape of the string but not the ranges
ValidYMD_NoRange(y, m, d) == y >= 0 /\ m >= 0 /\ d >= 0

\* the range check of the date constructor
ValidYMD(y, m, d) ==
    /\ y >= 1 /\ y <= 9999
    /\ m >= 1 /\ m <= 12
    /\ d >= 1 /\ d <= DaysInMonth(y, m)

\* date.fromisoformat(s), YYYY-MM-DD
DateFromIso(s) ==
    IF /\ Len(s) = 10
       /\ IsDigits(s, 1, 4) /\ s[5] = "-"
       /\ IsDigits(s, 6, 7) /\ s[8] = "-"
       /\ IsDigits(s, 9, 10)
       /\ ValidYMD(ToInt(s, 1, 4), ToInt(s, 6, 7), ToInt(s, 9, 10))
    THEN [ok |-> TRUE, year |-> ToInt(s, 1, 4), month |-> ToInt(s, 6, 7),
          day |-> ToInt(s, 9, 10)]
    ELSE ParseFail

\* the time part of datetime.fromisoformat: HH, HH:MM or HH:MM:SS
TimeFromIso(s) ==
    LET n == Len(s)
        wf == /\ n \in {2, 5, 8}
              /\ IsDigits(s, 1, 2)
              /\ n >= 5 => (s[3] = ":" /\ IsDigits(s, 4, 5))
              /\ n >= 8 => (s[6] = ":" /\ IsDigits(s, 7, 8))
        hh == ToInt(s, 1, 2)
        mm == IF n >= 5 THEN ToInt(s, 4, 5) ELSE 0
        ss == IF n >= 8 THEN ToInt(s, 7, 8) ELSE 0
    IN  IF wf /\ hh <= 23 /\ mm <= 59 /\ ss <= 59
        THEN [ok |-> TRUE, hour |-> hh, minute |-> mm, second |-> ss]
        ELSE ParseFail

\* datetime.fromisoformat(s): a date, then optionally one separator
\* character and a time
DateTimeFromIso(s) ==
    IF Len(s) < 10 THEN ParseFail
    ELSE LET d == DateFromIso(SubSeq(s, 1, 10))
             tm == IF Len(s) = 10
                   THEN [ok |-> TRUE, hour |-> 0, minute |-> 0, second |-> 0]
                   ELSE TimeFromIso(SubSeq(s, 12, Len(s)))
         IN  IF d.ok /\ tm.ok
             THEN [ok |-> TRUE, year |-> d.year, month |-> d.month,
                   day |-> d.day, hour |-> tm.hour, minute |-> tm.minute,
                   second |-> tm.second]
             ELSE ParseFail

Pad2(n) == IF n < 10 THEN "0" \o ToString(n) ELSE ToString(n)

Pad4(n) ==
    IF n < 10 THEN "000" \o ToString(n)
    ELSE IF n < 100 THEN "00" \o ToString(n)
    ELSE IF n < 1000 THEN "0" \o ToString(n)
    ELSE ToString(n)

\* date.isoformat()
DateIso(d) == Pad4(d.year) \o "-" \o Pad2(d.month) \o "-" \o Pad2(d.day)

\* datetime.isoformat()
DateTimeIso(d) ==
    DateIso(d) \o "T" \o Pad2(d.hour) \o ":" \o Pad2(d.minute) \o ":"
        \o Pad2(d.second)

---------------------------------------------------------------------------
(* The reservation records built by the tools *)

\* cost=randint(a, b): any integer of a..b, both ends included
randint(a, b) == a .. b

\* The draws the model explores from a range: its two ends.
Draws(S) == {c \in S : c - 1 \notin S \/ c + 1 \notin S}

FlightCost == randint(200, 700)
HotelCost == randint(50, 300)
\* reserve_bus left with the price range of the flight it was copied from
BusCost_AsFlight == randint(200, 700)

BusCost == randint(20, 100)
RestaurantCost == randint(10, 50)

DateOf(d) == [year |-> d.year, month |-> d.month, day |-> d.day]

TripReservation(trip_type, departure, destination, date, cost) ==
    [cls |-> "TripReservation", trip_type |-> trip_type,
     departure |-> departure, destination |-> destination,
     date |-> DateOf(date), cost |-> cost]

HotelReservation(checkin_date, checkout_date, hotel_name, city, cost) ==
    [cls |-> "HotelReservation", checkin_date |-> DateOf(checkin_date),
     checkout_date |-> DateOf(checkout_date), hotel_name |-> hotel_name,
     city |-> city, cost |-> cost]

RestaurantReservation(reservation_time, restaurant, city, dish, cost) ==
    [cls |-> "RestaurantReservation",
     reservation_time |-> [year |-> reservation_time.year,
                           month |-> reservation_time.month,
                           day |-> reservation_time.day,
                           hour |-> reservation_time.hour,
                           minute |-> reservation_time.minute,
                           second |-> reservation_time.second],
     restaurant |-> restaurant, city |-> city, dish |-> dish, cost |-> cost]

---------------------------------------------------------------------------
(* save_reservation: read the whole log, append, rewrite the whole log *)

\* the tag written to the log with a record
ReservationType(r) ==
    CASE r.cls = "TripReservation" -> r.trip_type
      [] r.cls = "HotelReservation" -> "hotel"
      [] r.cls = "RestaurantReservation" -> "restaurant"

\* a record as the flat object of the log, dates as ISO strings
Serialize(r) ==
    CASE r.cls = "TripReservation" ->
            JObj([reservation_type |-> JStr(ReservationType(r)),
                  trip_type |-> JStr(r.trip_type),
                  departure |-> JStr(r.departure),
                  destination |-> JStr(r.destination),
                  date |-> JStr(DateIso(r.date)),
                  cost |-> JInt(r.cost)])
      [] r.cls = "HotelReservation" ->
            JObj([reservation_type |-> JStr(ReservationType(r)),
                  checkin_date |-> JStr(DateIso(r.checkin_date)),
                  checkout_date |-> JStr(DateIso(r.checkout_date)),
                  hotel_name |-> JStr(r.hotel_name),
                  city |-> JStr(r.city),
                  cost |-> JInt(r.cost)])
      [] r.cls = "RestaurantReservation" ->
            JObj([reservation_type |-> JStr(ReservationType(r)),
                  reservation_time |-> JStr(DateTimeIso(r.reservation_time)),
                  restaurant |-> JStr(r.restaurant),
                  city |-> JStr(r.city),
                  dish |-> JStr(r.dish),
                  cost |-> JInt(r.cost)])

\* the existing JSON array, the empty array if the file does not exist
ReadLog(f) == IF f.st = "absent" THEN <<>> ELSE f.v.a

\* the file rewritten in full
WriteLog(entries) == JsonFile(JArr(entries))

save_reservation(f, reservation) ==
    WriteLog(Append(ReadLog(f), Serialize(reservation)))

\* a file save_reservation can read: absent, or holding a JSON array
IsLog(f) == f.st = "absent" \/ (f.json /\ f.v.t = "arr")

---------------------------------------------------------------------------
(* generate_trip_report *)

\* json.load(open(log_file, 'r'))
json_load(f) ==
    IF f.st = "absent" THEN [exc |-> "FileNotFoundError", v |-> JNull]
    ELSE IF ~f.json THEN [exc |-> "JSONDecodeError", v |-> JNull]
    ELSE [exc |-> "", v |-> f.v]

\* the file had it been opened with 'w': created or truncated
FileAfterRead_Truncated(f) == RawFile("")

\* the file after open(log_file, 'r') and json.load: reading leaves it alone
FileAfterRead(f) == f

\* the look-up with the two fields in the other order
EntryCity_DestinationFirst(entry) ==
    Get(entry, "destination", Get(entry, "city", JStr("Unknown")))

EntryCity(entry) ==
    Get(entry, "city", Get(entry, "destination", JStr("Unknown")))

EntryDate(entry) ==
    Get(entry, "date",
        Get(entry, "checkin_date",
            Get(entry, "reservation_time", JStr("Unknown"))))

EntryCost(entry) == Get(entry, "cost", JInt(0))

\* total_cost = cost
AddCost_Assign(total_cost, cost) == cost

\* total_cost += cost
AddCost(total_cost, cost) == total_cost + cost

Activity(entry, date, cost) ==
    Str(entry["reservation_type"]) \o " on " \o Str(date) \o " - Cost: $"
        \o Str(cost)

\* places_visited, a dict in insertion order: a sequence of (city, activities)
HasCity(places_visited, city) ==
    \E i \in 1..Len(places_visited) : places_visited[i].city = city

\* the activity inserted at the head of the city's list
AddActivity_AtHead(places_visited, city, activity) ==
    LET places == IF HasCity(places_visited, city)
                  THEN places_visited
                  ELSE Append(places_visited,
                              [city |-> city, activities |-> <<>>])
    IN  [i \in 1..Len(places) |->
            IF places[i].city = city
            THEN [places[i] EXCEPT !.activities = <<activity>> \o @]
            ELSE places[i]]

AddActivity(places_visited, city, activity) ==
    LET places == IF HasCity(places_visited, city)
                  THEN places_visited
                  ELSE Append(places_visited,
                              [city |-> city, activities |-> <<>>])
    IN  [i \in 1..Len(places) |->
            IF places[i].city = city
            THEN [places[i] EXCEPT !.activities = Append(@, activity)]
            ELSE places[i]]

LoopRaise(e) == [exc |-> e, total_cost |-> 0, places_visited |-> <<>>]

\* what `for entry in trip_data` iterates over; "" marks a value that is
\* not iterable.  A string yields its characters and an object its keys:
\* strings either way, which is all the loop body can tell.
Iterate(trip_data) ==
    CASE trip_data.t = "arr" -> [exc |-> "", items |-> trip_data.a]
      [] trip_data.t = "str" ->
            [exc |-> "", items |-> [i \in 1..Len(trip_data.s) |-> JStr("")]]
      [] trip_data.t = "obj" ->
            [exc |-> "",
             items |-> [i \in 1..Cardinality(DOMAIN trip_data.o) |-> JStr("")]]
      [] OTHER -> [exc |-> "TypeError", items |-> <<>>]

\* the loop over the entries
RECURSIVE Organize(_, _, _, _)
Organize(items, i, total_cost, places_visited) ==
    IF i > Len(items)
    THEN [exc |-> "", total_cost |-> total_cost,
          places_visited |-> places_visited]
    ELSE IF items[i].t # "obj" THEN LoopRaise("AttributeError")
    ELSE LET entry == items[i].o
             city == EntryCity(entry)
             date == EntryDate(entry)
             cost == EntryCost(entry)
         IN  IF cost.t # "int" THEN LoopRaise("TypeError")
             ELSE IF "reservation_type" \notin DOMAIN entry
             THEN LoopRaise("KeyError")
             ELSE Organize(items, i + 1, AddCost(total_cost, cost.i),
                           AddActivity(places_visited, city,
                                       Activity(entry, date, cost)))

\* the loop that writes one block per city
RECURSIVE CityBlocks(_, _)
CityBlocks(places_visited, i) ==
    IF i > Len(places_visited) THEN <<>>
    ELSE <<"City: " \o Str(places_visited[i].city)>>
            \o places_visited[i].activities
            \o <<"\n">>
            \o CityBlocks(places_visited, i + 1)

TotalLine(total_cost) ==
    "Total budget for the trip: $" \o ToString(total_cost)

\* "\n".join(report)
RECURSIVE Join(_)
Join(lines) ==
    IF Len(lines) = 0 THEN ""
    ELSE IF Len(lines) = 1 THEN lines[1]
    ELSE lines[1] \o "\n" \o Join(Tail(lines))

\* the except clauses with their two messages exchanged
ExceptText_Swapped(e) ==
    CASE e = "FileNotFoundError" -> "Error: Could not decode the trip log file."
      [] e = "JSONDecodeError" -> "Error: trip log file not found."

\* the except clauses: the text returned for a caught exception
ExceptText(e) ==
    CASE e = "FileNotFoundError" -> "Error: trip log file not found."
      [] e = "JSONDecodeError" -> "Error: Could not decode the trip log file."

Caught == {"FileNotFoundError", "JSONDecodeError"}

RunReturn(text, lines) == [exc |-> "", text |-> text, report |-> lines]
RunRaise(e) == [exc |-> e, text |-> "", report |-> <<>>]

\* an exception inside the try block: returned as text if an except clause
\* names it, raised to the caller otherwise
OnException(e) ==
    IF e \in Caught THEN RunReturn(ExceptText(e), <<>>) ELSE RunRaise(e)

\* the whole function, for the log file f
TripReport(f) ==
    LET loaded == json_load(f) IN
    IF loaded.exc # "" THEN OnException(loaded.exc)
    ELSE LET it == Iterate(loaded.v) IN
         IF it.exc # "" THEN OnException(it.exc)
         ELSE LET done == Organize(it.items, 1, 0, <<>>) IN
              IF done.exc # "" THEN OnException(done.exc)
              ELSE LET lines == CityBlocks(done.places_visited, 1)
                                   \o <<TotalLine(done.total_cost)>>
                   IN  RunReturn(Join(lines), lines)

---------------------------------------------------------------------------
(* Inputs of the tools *)

D_2024_12_01 == <<"2", "0", "2", "4", "-", "1", "2", "-", "0", "1">>
D_2024_02_29 == <<"2", "0", "2", "4", "-", "0", "2", "-", "2", "9">>
D_2024_13_40 == <<"2", "0", "2", "4", "-", "1", "3", "-", "4", "0">>
D_2023_02_29 == <<"2", "0", "2", "3", "-", "0", "2", "-", "2", "9">>
D_slashes == <<"1", "2", "/", "0", "1", "/", "2", "0", "2", "4">>
T_2030 == <<"T", "2", "0", ":", "3", "0">>
T_2500 == <<"T", "2", "5", ":", "0", "0">>
T_tonight == <<"t", "o", "n", "i", "g", "h", "t">>

ValidDates == {D_2024_12_01, D_2024_02_29}
InvalidDates == {D_2024_13_40, D_2023_02_29, D_slashes}
ValidTimes == {D_2024_12_01 \o T_2030, D_2024_02_29}
InvalidTimes == {D_2024_12_01 \o T_2500, T_tonight}

Cities == {"La Paz", "Santa Cruz"}
Departure == "Cochabamba"
FlightDestination == "Santa Cruz"
BusDestination == "Uyuni"
Hotel == "Hotel Sol"
Restaurant == "El Fogon"
Dish == "Saice"

NoArgs == [nargs |-> 0]
NoRec == [cls |-> "none"]

---------------------------------------------------------------------------
(* The tools, called one at a time *)

\* a save that skips a record the log already holds
SaveAndReturn_Dedup(reservation) ==
    /\ file' = IF \E i \in 1..Len(ReadLog(file)) :
                     ReadLog(file)[i] = Serialize(reservation)
               THEN file
               ELSE save_reservation(file, reservation)
    /\ returned' = Append(returned, reservation)
    /\ exc' = ""

\* save_reservation(reservation); return reservation
SaveAndReturn(reservation) ==
    /\ file' = save_reservation(file, reservation)
    /\ returned' = Append(returned, reservation)
    /\ exc' = ""

\* the call ends in the ValueError of fromisoformat
RaiseValueError ==
    /\ exc' = "ValueError"
    /\ UNCHANGED <<file, returned>>

reserve_flight(date_str, departure, destination) ==
    LET date == DateFromIso(date_str) IN
    /\ op' = "reserve_flight"
    /\ args' = [date_str |-> date_str, departure |-> departure,
                destination |-> destination]
    /\ IF ~date.ok THEN RaiseValueError
       ELSE /\ Len(returned) < MaxCalls
            /\ \E cost \in Draws(FlightCost) :
                 SaveAndReturn(TripReservation("flight", departure,
                                               destination, date, cost))
    /\ result' = "" /\ report' = <<>>
    /\ UNCHANGED <<pc, rec, snap>>

reserve_hotel(checkin_date, checkout_date, hotel_name, city) ==
    LET checkin == DateFromIso(checkin_date)
        checkout == DateFromIso(checkout_date)
    IN
    /\ op' = "reserve_hotel"
    /\ args' = [checkin_date |-> checkin_date, checkout_date |-> checkout_date,
                hotel_name |-> hotel_name, city |-> city]
    /\ IF ~checkin.ok \/ ~checkout.ok THEN RaiseValueError
       ELSE /\ Len(returned) < MaxCalls
            /\ \E cost \in Draws(HotelCost) :
                 SaveAndReturn(HotelReservation(checkin, checkout, hotel_name,
                                                city, cost))
    /\ result' = "" /\ report' = <<>>
    /\ UNCHANGED <<pc, rec, snap>>

reserve_bus(date_str, departure, destination) ==
    LET date == DateFromIso(date_str) IN
    /\ op' = "reserve_bus"
    /\ args' = [date_str |-> date_str, departure |-> departure,
                destination |-> destination]
    /\ IF ~date.ok THEN RaiseValueError
       ELSE /\ Len(returned) < MaxCalls
            /\ \E cost \in Draws(BusCost) :
                 SaveAndReturn(TripReservation("bus", departure, destination,
                                               date, cost))
    /\ result' = "" /\ report' = <<>>
    /\ UNCHANGED <<pc, rec, snap>>

reserve_restaurant(reservation_time, restaurant, city, dish) ==
    LET time == DateTimeFromIso(reservation_time) IN
    /\ op' = "reserve_restaurant"
    /\ args' = [reservation_time |-> reservation_time,
                restaurant |-> restaurant, city |-> city, dish |-> dish]
    /\ IF ~time.ok THEN RaiseValueError
       ELSE /\ Len(returned) < MaxCalls
            /\ \E cost \in Draws(RestaurantCost) :
                 SaveAndReturn(RestaurantReservation(time, restaurant, city,
                                                     dish, cost))
    /\ result' = "" /\ report' = <<>>
    /\ UNCHANGED <<pc, rec, snap>>

generate_trip_report ==
    LET run == TripReport(file) IN
    /\ op' = "generate_trip_report"
    /\ args' = NoArgs
    /\ exc' = run.exc
    /\ result' = run.text
    /\ report' = run.report
    /\ file' = FileAfterRead(file)
    /\ UNCHANGED <<returned, pc, rec, snap>>

Procs == {1, 2}

InitCalls ==
    /\ op = "none"
    /\ args = NoArgs
    /\ exc = ""
    /\ result = ""
    /\ report = <<>>
    /\ returned = <<>>
    /\ pc = [p \in Procs |-> "idle"]
    /\ rec = [p \in Procs |-> NoRec]
    /\ snap = [p \in Procs |-> <<>>]

\* the log is absent or empty when the program starts
Init ==
    /\ file \in {NoFile, EmptyLog}
    /\ InitCalls

CallFlight ==
    \E date_str \in ValidDates \cup InvalidDates :
        reserve_flight(date_str, Departure, FlightDestination)

CallHotel ==
    \E checkin_date \in {D_2024_02_29, D_2023_02_29},
       checkout_date \in {D_2024_12_01, D_2024_13_40}, city \in Cities :
        reserve_hotel(checkin_date, checkout_date, Hotel, city)

CallBus ==
    \E date_str \in {D_2024_12_01, D_slashes} :
        reserve_bus(date_str, Departure, BusDestination)

CallRestaurant ==
    \E reservation_time \in ValidTimes \cup InvalidTimes, city \in Cities :
        reserve_restaurant(reservation_time, Restaurant, city, Dish)

Next ==
    \/ CallFlight
    \/ CallHotel
    \/ CallBus
    \/ CallRestaurant
    \/ generate_trip_report

Spec == Init /\ [][Next]_vars

---------------------------------------------------------------------------
(* generate_trip_report on any log file *)

\* an object from a set of <<key, value>> pairs with distinct keys
Obj(fields) ==
    JObj([k \in {f[1] : f \in fields} |->
            (CHOOSE f \in fields : f[1] = k)[2]])

CityFields ==
    {{}, {<<"city", JStr("La Paz")>>},
     {<<"destination", JStr("Santa Cruz")>>},
     {<<"city", JStr("La Paz")>>, <<"destination", JStr("Santa Cruz")>>},
     {<<"city", JNull>>, <<"destination", JStr("Santa Cruz")>>},
     {<<"city", JStr("Santa Cruz")>>}}

DateFields ==
    SUBSET {<<"date", JStr("2024-12-01")>>,
            <<"checkin_date", JStr("2024-12-02")>>,
            <<"reservation_time", JStr("2024-12-03T20:30:00")>>}

\* entries as the spec's log format describes them: flat objects with a
\* reservation_type and, when they have a cost, an integer cost
GoodEntries ==
    {Obj({<<"reservation_type", JStr("flight")>>, <<"cost", JInt(500)>>,
          <<"date", JStr("2024-12-01")>>} \cup c) : c \in CityFields}
    \cup
    {Obj({<<"reservation_type", JStr("hotel")>>, <<"cost", JInt(10)>>,
          <<"city", JStr("La Paz")>>} \cup d) : d \in DateFields}
    \cup
    {Obj({<<"reservation_type", JStr("bus")>>,
          <<"destination", JStr("Santa Cruz")>>,
          <<"date", JStr("2024-12-01")>>})}

\* array elements that are not such entries
BadEntries ==
    {Obj({<<"city", JStr("La Paz")>>, <<"cost", JInt(10)>>}),
     Obj({<<"reservation_type", JStr("bus")>>, <<"cost", JStr("12")>>}),
     Obj({<<"reservation_type", JStr("bus")>>, <<"cost", JNull>>}),
     JInt(7)}

\* top-level JSON values that are not arrays
NonArrays ==
    {JInt(5), JNull, JStr(""), JStr("trip"), JObj(<<>>),
     Obj({<<"reservation_type", JStr("flight")>>})}

SeqsUpTo(S, n) == UNION {[1..k -> S] : k \in 0..n}

LogFiles ==
    {NoFile, RawFile(""), RawFile("[{")}
    \cup {JsonFile(v) : v \in NonArrays}
    \cup {JsonFile(JArr(a)) :
            a \in SeqsUpTo(GoodEntries \cup BadEntries, MaxEntries)}

InitReport ==
    /\ file \in LogFiles
    /\ InitCalls

NextReport == generate_trip_report

SpecReport == InitReport /\ [][NextReport]_vars

---------------------------------------------------------------------------
(* Two reservation calls that overlap *)

\* the records the two callers may build
RaceRecords ==
    {TripReservation("flight", Departure, FlightDestination,
                     DateFromIso(D_2024_12_01), cost) :
        cost \in Draws(FlightCost)}
    \cup
    {HotelReservation(DateFromIso(D_2024_02_29), DateFromIso(D_2024_12_01),
                      Hotel, city, cost) :
        city \in Cities, cost \in Draws(HotelCost)}

\* the reservation is constructed
RaceBuild(p) ==
    /\ pc[p] = "idle"
    /\ \E reservation \in RaceRecords :
         rec' = [rec EXCEPT ![p] = reservation]
    /\ pc' = [pc EXCEPT ![p] = "built"]
    /\ UNCHANGED <<file, op, args, exc, result, report, returned, snap>>

\* the call of save_reservation left out
RaceCallSave_Skipped(p) ==
    /\ pc[p] = "built"
    /\ pc' = [pc EXCEPT ![p] = "saved"]
    /\ UNCHANGED <<file, op, args, exc, result, report, returned, rec, snap>>

\* save_reservation is entered and reads the log
RaceCallSave(p) ==
    /\ pc[p] = "built"
    /\ snap' = [snap EXCEPT ![p] = ReadLog(file)]
    /\ pc' = [pc EXCEPT ![p] = "read"]
    /\ UNCHANGED <<file, op, args, exc, result, report, returned, rec>>

\* save_reservation rewrites the log from what it read
RaceWrite(p) ==
    /\ pc[p] = "read"
    /\ file' = WriteLog(Append(snap[p], Serialize(rec[p])))
    /\ pc' = [pc EXCEPT ![p] = "saved"]
    /\ UNCHANGED <<op, args, exc, result, report, returned, rec, snap>>

\* return reservation
RaceReturn(p) ==
    /\ pc[p] = "saved"
    /\ returned' = Append(returned, rec[p])
    /\ pc' = [pc EXCEPT ![p] = "done"]
    /\ UNCHANGED <<file, op, args, exc, result, report, rec, snap>>

InitRace ==
    /\ file \in {NoFile, EmptyLog} \cup
                {WriteLog(<<Serialize(r)>>) : r \in RaceRecords}
    /\ InitCalls

NextRace ==
    \E p \in Procs :
        \/ RaceBuild(p)
        \/ RaceCallSave(p)
        \/ RaceWrite(p)
        \/ RaceReturn(p)

SpecRace == InitRace /\ [][NextRace]_vars

---------------------------------------------------------------------------
(* Properties *)

ReserveOps ==
    {"reserve_flight", "reserve_hotel", "reserve_bus", "reserve_restaurant"}

Reported == op = "generate_trip_report"

\* the kind of a record, and the cost range the documentation gives it
KindOf(r) ==
    IF r.cls = "TripReservation" THEN r.trip_type
    ELSE IF r.cls = "HotelReservation" THEN "hotel"
    ELSE "restaurant"

CostRange(kind) ==
    CASE kind = "flight" -> 200..700
      [] kind = "bus" -> 20..100
      [] kind = "hotel" -> 50..300
      [] kind = "restaurant" -> 10..50

\* C1: with the calls made one at a time from an absent or empty log, the
\* log holds exactly one entry per successful reservation call, the i-th
\* entry being the record the i-th call returned; two calls with the same
\* arguments leave two entries.
C1_LogHoldsReturnedRecords ==
    /\ IsLog(file)
    /\ Len(ReadLog(file)) = Len(returned)
    /\ \A i \in 1..Len(returned) : ReadLog(file)[i] = Serialize(returned[i])

\* two calls with identical arguments (and the same drawn cost) were made
C1_Witness ==
    /\ Len(returned) = 2
    /\ returned[1] = returned[2]
    /\ Len(ReadLog(file)) = 2

\* C3: every record a reservation tool returned, and every entry the tools
\* wrote to the log, has an integer cost inside the inclusive range of its
\* kind: flight 200..700, bus 20..100, hotel 50..300, restaurant 10..50.
C3_CostInRangeOfKind ==
    /\ \A i \in 1..Len(returned) :
         returned[i].cost \in CostRange(KindOf(returned[i]))
    /\ \A i \in 1..Len(ReadLog(file)) :
         LET entry == ReadLog(file)[i].o IN
         /\ entry["cost"].t = "int"
         /\ entry["cost"].i \in CostRange(entry["reservation_type"].s)

\* a bus at the top of its range and a flight at the bottom of its range
C3_Witness ==
    /\ \E i \in 1..Len(returned) :
         KindOf(returned[i]) = "bus" /\ returned[i].cost = 100
    /\ \E i \in 1..Len(ReadLog(file)) :
         /\ ReadLog(file)[i].o["reservation_type"].s = "flight"
         /\ ReadLog(file)[i].o["cost"].i = 200

\* whether a call has a date/time argument that is not a valid ISO string
HasInvalidDate(o, a) ==
    CASE o \in {"reserve_flight", "reserve_bus"} -> a.date_str \in InvalidDates
      [] o = "reserve_hotel" ->
            a.checkin_date \in InvalidDates \/ a.checkout_date \in InvalidDates
      [] o = "reserve_restaurant" -> a.reservation_time \in InvalidTimes
      [] OTHER -> FALSE

\* C4: a reservation call with a date/time argument that is not a valid
\* ISO string (for reserve_hotel, either of its two dates) fails with the
\* parse error and leaves the log exactly as it was; no record is returned.
C4_InvalidDateFailsWithoutAppend ==
    [][HasInvalidDate(op', args') =>
            /\ exc' = "ValueError"
            /\ file' = file
            /\ returned' = returned]_vars

\* reserve_hotel with a valid check-in and an invalid check-out date failed
\* on a log that already held an entry
C4_Witness ==
    /\ op = "reserve_hotel"
    /\ args.checkin_date \in ValidDates
    /\ args.checkout_date \in InvalidDates
    /\ exc = "ValueError"
    /\ Len(ReadLog(file)) >= 1


\* a log as the spec's log format describes it: a JSON array of flat
\* objects, each with a reservation_type and, if it has a cost, an integer
WellFormedLog(f) ==
    /\ f.st = "text" /\ f.json /\ f.v.t = "arr"
    /\ \A i \in 1..Len(f.v.a) :
         /\ f.v.a[i].t = "obj"
         /\ "reservation_type" \in DOMAIN f.v.a[i].o
         /\ "cost" \in DOMAIN f.v.a[i].o => f.v.a[i].o["cost"].t = "int"

CostOf(entry) == IF "cost" \in DOMAIN entry THEN entry["cost"].i ELSE 0

RECURSIVE SumOfCosts(_)
SumOfCosts(entries) ==
    IF Len(entries) = 0 THEN 0
    ELSE CostOf(Head(entries).o) + SumOfCosts(Tail(entries))

\* C2: for a well-formed log the report ends with the line
\* "Total budget for the trip: $<total>", <total> being the sum of the
\* cost fields of all entries, an entry without cost counting 0.
C2_TotalIsSumOfCosts ==
    (Reported /\ WellFormedLog(file)) =>
        /\ exc = ""
        /\ Len(report) >= 1
        /\ report[Len(report)] =
              "Total budget for the trip: $"
                  \o ToString(SumOfCosts(file.v.a))
        /\ result = Join(report)

\* a report over three entries, one of them without a cost
C2_Witness ==
    /\ Reported /\ WellFormedLog(file)
    /\ Len(file.v.a) = 3
    /\ \E i \in 1..3 : "cost" \notin DOMAIN file.v.a[i].o
    /\ report[Len(report)] = "Total budget for the trip: $510"

\* C5: the report is exactly "Error: trip log file not found." when the
\* log file is absent and exactly "Error: Could not decode the trip log
\* file." when its content is not valid JSON; no line of a report is built.
C5_ErrorTexts ==
    Reported =>
        /\ file.st = "absent" =>
              /\ exc = ""
              /\ result = "Error: trip log file not found."
              /\ report = <<>>
        /\ (file.st = "text" /\ ~file.json) =>
              /\ exc = ""
              /\ result = "Error: Could not decode the trip log file."
              /\ report = <<>>

\* the report of a truncated log file
C5_Witness ==
    /\ Reported
    /\ file = RawFile("[{")
    /\ result = "Error: Could not decode the trip log file."

\* C6: generate_trip_report never raises to its caller: whatever the log
\* file holds, it returns an error text or a complete report.
C6_ReportNeverRaises ==
    Reported =>
        /\ exc = ""
        /\ \/ result \in {"Error: trip log file not found.",
                          "Error: Could not decode the trip log file."}
           \/ (Len(report) >= 1 /\ result = Join(report))

\* the grouping key and the display date the documentation gives an entry
KeyOf(entry) ==
    CASE "city" \in DOMAIN entry -> entry["city"]
      [] "city" \notin DOMAIN entry /\ "destination" \in DOMAIN entry ->
            entry["destination"]
      [] OTHER -> JStr("Unknown")

DisplayDateOf(entry) ==
    CASE "date" \in DOMAIN entry -> entry["date"]
      [] "date" \notin DOMAIN entry /\ "checkin_date" \in DOMAIN entry ->
            entry["checkin_date"]
      [] {"date", "checkin_date"} \cap DOMAIN entry = {}
            /\ "reservation_time" \in DOMAIN entry -> entry["reservation_time"]
      [] OTHER -> JStr("Unknown")

LineOf(entry) ==
    Str(entry["reservation_type"]) \o " on " \o Str(DisplayDateOf(entry))
        \o " - Cost: $" \o ToString(CostOf(entry))

\* the report without its last line, cut into blocks at the "\n" lines
RECURSIVE SplitBlocks(_, _, _, _)
SplitBlocks(lines, i, block, blocks) ==
    IF i > Len(lines)
    THEN IF block = <<>> THEN blocks ELSE Append(blocks, block)
    ELSE IF lines[i] = "\n"
    THEN SplitBlocks(lines, i + 1, <<>>, Append(blocks, block))
    ELSE SplitBlocks(lines, i + 1, Append(block, lines[i]), blocks)

BlocksOf(lines) == SplitBlocks(SubSeq(lines, 1, Len(lines) - 1), 1, <<>>, <<>>)

\* C7: the report files every entry under the key city, else destination,
\* else "Unknown", and shows for it the date date, else checkin_date, else
\* reservation_time, else "Unknown".
C7_FallbackOrder ==
    (Reported /\ WellFormedLog(file)) =>
        /\ exc = ""
        /\ \A i \in 1..Len(file.v.a) :
             \E j \in 1..Len(BlocksOf(report)) :
                LET block == BlocksOf(report)[j] IN
                /\ Len(block) >= 2
                /\ block[1] = "City: " \o Str(KeyOf(file.v.a[i].o))
                /\ \E k \in 2..Len(block) : block[k] = LineOf(file.v.a[i].o)
        /\ Len(file.v.a) = 1 =>
             report = <<"City: " \o Str(KeyOf(file.v.a[1].o)),
                        LineOf(file.v.a[1].o), "\n",
                        "Total budget for the trip: $"
                            \o ToString(CostOf(file.v.a[1].o))>>

\* an entry with both city and destination, and one whose only date field
\* is reservation_time
C7_Witness ==
    /\ Reported /\ WellFormedLog(file) /\ exc = ""
    /\ \E i \in 1..Len(file.v.a) :
         {"city", "destination"} \subseteq DOMAIN file.v.a[i].o
    /\ \E i \in 1..Len(file.v.a) :
         {"date", "checkin_date", "reservation_time"} \cap DOMAIN file.v.a[i].o
            = {"reservation_time"}
    /\ \E k \in 1..Len(report) :
         report[k] = "hotel on 2024-12-03T20:30:00 - Cost: $10"

\* C8: generate_trip_report leaves the log file as it is, whether it
\* returns a report or an error text (or raises).
C8_ReportLeavesLog ==
    [][op' = "generate_trip_report" => file' = file]_vars

\* a report was returned for a log of three entries
C8_Witness ==
    /\ Reported /\ exc = ""
    /\ file.st = "text" /\ file.json /\ file.v.t = "arr"
    /\ Len(file.v.a) = 3
    /\ Len(report) > 1

\* the lines of the entries filed under a key, in log order
RECURSIVE LinesUnder(_, _)
LinesUnder(entries, key) ==
    IF Len(entries) = 0 THEN <<>>
    ELSE (IF KeyOf(Head(entries).o) = key
          THEN <<LineOf(Head(entries).o)>> ELSE <<>>)
            \o LinesUnder(Tail(entries), key)

RECURSIVE CountLines(_)
CountLines(blocks) ==
    IF Len(blocks) = 0 THEN 0
    ELSE Len(Head(blocks)) - 1 + CountLines(Tail(blocks))

\* C10: for a well-formed log the report has one "City: <key>" block per
\* distinct grouping key and one activity line per entry, each in the
\* block of its key, in the order of the log within every block.
C10_OneLinePerEntryInLogOrder ==
    (Reported /\ WellFormedLog(file)) =>
        LET entries == file.v.a
            keys == {KeyOf(entries[i].o) : i \in 1..Len(entries)}
            blocks == BlocksOf(report)
        IN  /\ exc = ""
            /\ Len(blocks) = Cardinality(keys)
            /\ \A key \in keys :
                 \E j \in 1..Len(blocks) :
                    blocks[j] = <<"City: " \o Str(key)>>
                                    \o LinesUnder(entries, key)
            /\ CountLines(blocks) = Len(entries)

\* three entries, the first and the third under the same key with
\* different lines, the second under another key
C10_Witness ==
    /\ Reported /\ WellFormedLog(file) /\ exc = ""
    /\ Len(file.v.a) = 3
    /\ KeyOf(file.v.a[1].o) = KeyOf(file.v.a[3].o)
    /\ KeyOf(file.v.a[1].o) # KeyOf(file.v.a[2].o)
    /\ LineOf(file.v.a[1].o) # LineOf(file.v.a[3].o)
    /\ Len(BlocksOf(report)) = 2

\* C9: when two reservation calls overlap so that both saves read the log
\* before either writes it, both calls return but the log has grown by one
\* entry only: the record of the call that wrote last.
C9_LostUpdate ==
    ((\A p \in Procs : pc[p] = "done") /\ snap[1] = snap[2]) =>
        /\ Len(returned) = 2
        /\ Len(ReadLog(file)) = Len(snap[1]) + 1
        /\ \E p \in Procs :
             ReadLog(file) = Append(snap[p], Serialize(rec[p]))

\* both calls returned and the log, empty before, holds one entry
C9_Witness ==
    /\ \A p \in Procs : pc[p] = "done"
    /\ Len(returned) = 2
    /\ rec[1] # rec[2]
    /\ snap[1] = <<>> /\ snap[2] = <<>>
    /\ Len(ReadLog(file)) = 1

====
